---- MODULE Spec2Model ----
(***************************************************************************)
(* A model of the mini-wiki-qa request pipeline: the LangGraph nodes of    *)
(* app/rag/graph.py, the safety filters of app/rag/safety.py, the          *)
(* reranker of app/rag/reranker.py, the retriever and generator            *)
(* collaborators, and the POST /ask handler of app/api/main.py.            *)
(*                                                                         *)
(* Texts are sequences of lexemes (a lexeme is a maximal run of non-blank  *)
(* characters, or one literal the detectors treat as a unit); the regular  *)
(* expressions of safety.py are modelled by what they match on lexemes.    *)
(* Python dicts are functions whose DOMAIN is the set of keys present.     *)
(***************************************************************************)
EXTENDS Integers, Sequences, FiniteSets, TLC

VARIABLES state, pc, calls, visited, entry, api, index, unit, peer, backend, singleton

vars == <<state, pc, calls, visited, entry, api, index, unit, peer, backend, singleton>>

---------------------------------------------------------------------------
(* Bounds of the model *)

MaxQueryLen == 3

MaxAnswerLen == 1

MaxIndex == 21

---------------------------------------------------------------------------
(* Python dict and truthiness helpers *)

EmptyDict == [k \in {} |-> TRUE]

Get(d, k, default) == IF k \in DOMAIN d THEN d[k] ELSE default

Put(d, k, v) == [x \in (DOMAIN d) \cup {k} |-> IF x = k THEN v ELSE d[x]]

Has(d, k) == k \in DOMAIN d

\* `not text` for a str: the empty text is falsy
Truthy(text) == Len(text) > 0

---------------------------------------------------------------------------
(* safety.py: InjectionGuard *)

injection_patterns ==
    << "ignore\\s+(previous|above|all)\\s+instructions?",
       "disregard\\s+.*instructions?",
       "forget\\s+.*instructions?",
       "you\\s+are\\s+now",
       "new\\s+instructions?:",
       "system\\s*:\\s*",
       "<\\s*system\\s*>",
       "IGNORE\\s+EVERYTHING" >>

\* re.IGNORECASE: lexemes are compared in lower case
Lower(tok) ==
    CASE tok = "Ignore" -> "ignore"
      [] tok = "IGNORE" -> "ignore"
      [] tok = "EVERYTHING" -> "everything"
      [] tok = "SYSTEM:" -> "system:"
      [] tok = "You" -> "you"
      [] OTHER -> tok

\* lexemes in which the regex fragment `instructions?` finds a match
HasInstruction(tok) ==
    Lower(tok) \in {"instruction", "instructions", "instructions:", "instruction:"}

\* lexemes in which `instructions?:` finds a match
HasInstructionColon(tok) == Lower(tok) \in {"instructions:", "instruction:"}

\* pattern.search(text) for the i-th catalogue pattern
PatternSearch(i, text) ==
    LET n == Len(text)
        low(k) == Lower(text[k])
    IN CASE i = 1 -> \E k \in 1..n :
                        /\ k + 2 <= n
                        /\ low(k) = "ignore"
                        /\ low(k + 1) \in {"previous", "above", "all"}
                        /\ HasInstruction(text[k + 2])
         [] i = 2 -> \E k \in 1..n : \E j \in 1..n :
                        /\ k < j
                        /\ low(k) = "disregard"
                        /\ HasInstruction(text[j])
         [] i = 3 -> \E k \in 1..n : \E j \in 1..n :
                        /\ k < j
                        /\ low(k) = "forget"
                        /\ HasInstruction(text[j])
         [] i = 4 -> \E k \in 1..n :
                        /\ k + 2 <= n
                        /\ low(k) = "you"
                        /\ low(k + 1) = "are"
                        /\ low(k + 2) = "now"
         [] i = 5 -> \E k \in 1..n :
                        /\ k + 1 <= n
                        /\ low(k) = "new"
                        /\ HasInstructionColon(text[k + 1])
         [] i = 6 -> \/ \E k \in 1..n : low(k) = "system:"
                     \/ \E k \in 1..n :
                          /\ k + 1 <= n
                          /\ low(k) = "system"
                          /\ low(k + 1) = ":"
         [] i = 7 -> \E k \in 1..n : low(k) = "<system>"
         [] i = 8 -> \E k \in 1..n :
                        /\ k + 1 <= n
                        /\ low(k) = "ignore"
                        /\ low(k + 1) = "everything"
         [] OTHER -> FALSE

RECURSIVE DetectFrom(_, _)
\* the for loop of check: patterns i..8 in catalogue order
DetectFrom(i, text) ==
    IF i > Len(injection_patterns) THEN <<>>
    ELSE (IF PatternSearch(i, text) THEN <<injection_patterns[i]>> ELSE <<>>)
         \o DetectFrom(i + 1, text)

\* check giving up the search after the first pattern that matches
check_first_match(text) ==
    LET all == DetectFrom(1, text)
        detected_patterns == IF Len(all) > 0 THEN <<all[1]>> ELSE <<>>
        is_safe == Len(detected_patterns) = 0
    IN [ is_safe |-> is_safe,
         detected_patterns |-> detected_patterns,
         risk_level |-> IF Len(detected_patterns) > 0 THEN "high" ELSE "none" ]

check(text) ==
    LET detected_patterns == DetectFrom(1, text)
        is_safe == Len(detected_patterns) = 0
    IN [ is_safe |-> is_safe,
         detected_patterns |-> detected_patterns,
         risk_level |-> IF Len(detected_patterns) > 0 THEN "high" ELSE "none" ]

---------------------------------------------------------------------------
(* safety.py: PIIScrubber *)

\* lexemes each detector matches; the address whose local part is a phone
\* number is matched by the email detector as a whole and by the phone
\* detector in its local part
email_pattern(tok) == tok \in {"alice@example.com", "555-123-4567@example.com"}

phone_pattern(tok) == tok \in {"555-123-4567", "555-123-4567@example.com"}

ssn_pattern(tok) == tok \in {"123-45-6789"}

cc_pattern(tok) == tok \in {"4111 1111 1111 1111"}

\* the detector of each category
Detector(category, tok) ==
    CASE category = "email" -> email_pattern(tok)
      [] category = "phone" -> phone_pattern(tok)
      [] category = "ssn" -> ssn_pattern(tok)
      [] category = "credit_card" -> cc_pattern(tok)

\* pattern.search(text)
Search(category, text) == \E k \in 1..Len(text) : Detector(category, text[k])

\* what pattern.sub(token, ...) makes of a lexeme with a match: the token,
\* followed by what the match leaves of the lexeme
SubLexeme(category, token, tok) ==
    IF category = "phone" /\ tok = "555-123-4567@example.com"
    THEN "[PHONE_REDACTED]@example.com"
    ELSE token

\* pattern.sub(token, text, count=1): only the first match is replaced
Sub_first_only(category, token, text) ==
    [k \in 1..Len(text) |->
        IF /\ Detector(category, text[k])
           /\ \A j \in 1..(k - 1) : ~Detector(category, text[j])
        THEN SubLexeme(category, token, text[k])
        ELSE text[k]]

\* pattern.sub(token, text)
Sub(category, token, text) ==
    [k \in 1..Len(text) |->
        IF Detector(category, text[k]) THEN SubLexeme(category, token, text[k])
        ELSE text[k]]

scrub(text) ==
    LET e  == Search("email", text)
        t1 == IF e THEN Sub("email", "[EMAIL_REDACTED]", text) ELSE text
        d1 == IF e THEN <<"email">> ELSE <<>>
        p  == Search("phone", t1)
        t2 == IF p THEN Sub("phone", "[PHONE_REDACTED]", t1) ELSE t1
        d2 == IF p THEN Append(d1, "phone") ELSE d1
        s  == Search("ssn", t2)
        t3 == IF s THEN Sub("ssn", "[SSN_REDACTED]", t2) ELSE t2
        d3 == IF s THEN Append(d2, "ssn") ELSE d2
        c  == Search("credit_card", t3)
        t4 == IF c THEN Sub("credit_card", "[CC_REDACTED]", t3) ELSE t3
        d4 == IF c THEN Append(d3, "credit_card") ELSE d3
    IN [ text |-> t4, pii_detected |-> d4, was_scrubbed |-> Len(d4) > 0 ]

---------------------------------------------------------------------------
(* retrieval.py: DocumentRetriever over the vector index *)

Min(a, b) == IF a <= b THEN a ELSE b

\* the stored passage ranked i-th for the query: its page_content is
\* identified by i, its similarity scores descend with rank (ties occur)
SourceOf(i) ==
    CASE i % 3 = 1 -> "data/documents/france.md"
      [] i % 3 = 2 -> "data/documents/cities.md"
      [] OTHER -> "unknown"

SimilarityOf(i) == 100 - 2 * (i \div 2)

\* vectorstore.similarity_search_with_score(query, k) on an index of n passages
similarity_search_with_score(n, query, k) ==
    [i \in 1..Min(k, n) |-> [doc |-> i, score |-> SimilarityOf(i)]]

\* retrieve handing the results back in ascending order of score
retrieve_ascending(n, query, top_k) ==
    LET results == similarity_search_with_score(n, query, top_k)
    IN [i \in 1..Len(results) |->
            [ text |-> results[Len(results) + 1 - i].doc,
              source |-> SourceOf(results[Len(results) + 1 - i].doc),
              score |-> results[Len(results) + 1 - i].score ]]

retrieve(n, query, top_k) ==
    LET results == similarity_search_with_score(n, query, top_k)
    IN [i \in 1..Len(results) |->
            [ text |-> results[i].doc,
              source |-> SourceOf(results[i].doc),
              score |-> results[i].score ]]

---------------------------------------------------------------------------
(* reranker.py: DocumentReranker *)

\* the relevance models the cross-encoder may be: each scores (query, text)
RelevanceModels == {"ties", "reverse", "coarse"}

predict(m, query, text) ==
    CASE m = "ties" -> (text * 7) % 5
      [] m = "reverse" -> text
      [] m = "coarse" -> text \div 2

\* sorted(..., reverse=True) is stable: x goes after every element whose key
\* is greater than or equal to its own
\* an insertion that puts x before the elements whose key is equal
InsertBeforeEqual(sorted, x) ==
    LET p == Cardinality({k \in 1..Len(sorted) :
                            sorted[k]["rerank_score"] > x["rerank_score"]})
    IN SubSeq(sorted, 1, p) \o <<x>> \o SubSeq(sorted, p + 1, Len(sorted))

InsertStable(sorted, x) ==
    LET p == Cardinality({k \in 1..Len(sorted) :
                              sorted[k]["rerank_score"] >= x["rerank_score"]})
    IN SubSeq(sorted, 1, p) \o <<x>> \o SubSeq(sorted, p + 1, Len(sorted))

RECURSIVE SortedByRerankScore(_)
SortedByRerankScore(chunks) ==
    IF Len(chunks) = 0 THEN <<>>
    ELSE InsertStable(SortedByRerankScore(SubSeq(chunks, 1, Len(chunks) - 1)),
                      chunks[Len(chunks)])

Reverse(seq) == [i \in 1..Len(seq) |-> seq[Len(seq) + 1 - i]]

\* rerank sorting without reverse=True
rerank_ascending(m, query, chunks, top_k) ==
    IF Len(chunks) = 0 THEN chunks
    ELSE LET scored == [i \in 1..Len(chunks) |->
                          Put(Put(chunks[i], "rerank_score",
                                  predict(m, query, chunks[i]["text"])),
                              "original_score", Get(chunks[i], "score", 0))]
             reranked == Reverse(SortedByRerankScore(scored))
         IN IF top_k # 0 THEN SubSeq(reranked, 1, Min(top_k, Len(reranked)))
            ELSE reranked

\* rerank writing the relevance over the chunk's score
rerank_overwriting_score(m, query, chunks, top_k) ==
    IF Len(chunks) = 0 THEN chunks
    ELSE LET scored == [i \in 1..Len(chunks) |->
                          Put(Put(Put(chunks[i], "rerank_score",
                                      predict(m, query, chunks[i]["text"])),
                                  "original_score", Get(chunks[i], "score", 0)),
                              "score", predict(m, query, chunks[i]["text"]))]
             reranked == SortedByRerankScore(scored)
         IN IF top_k # 0 THEN SubSeq(reranked, 1, Min(top_k, Len(reranked)))
            ELSE reranked

\* rerank truncating to top_k before it sorts
rerank_truncate_first(m, query, chunks, top_k) ==
    IF Len(chunks) = 0 THEN chunks
    ELSE LET scored == [i \in 1..Len(chunks) |->
                          Put(Put(chunks[i], "rerank_score",
                                  predict(m, query, chunks[i]["text"])),
                              "original_score", Get(chunks[i], "score", 0))]
             kept == IF top_k # 0 THEN SubSeq(scored, 1, Min(top_k, Len(scored)))
                     ELSE scored
         IN SortedByRerankScore(kept)

\* rerank returning the scored chunks in the order they came in
rerank_unsorted(m, query, chunks, top_k) ==
    IF Len(chunks) = 0 THEN chunks
    ELSE LET scored == [i \in 1..Len(chunks) |->
                          Put(Put(chunks[i], "rerank_score",
                                  predict(m, query, chunks[i]["text"])),
                              "original_score", Get(chunks[i], "score", 0))]
         IN IF top_k # 0 THEN SubSeq(scored, 1, Min(top_k, Len(scored)))
            ELSE scored

\* top_k = 0 stands for None: both are falsy in `if top_k:`
rerank(m, query, chunks, top_k) ==
    IF Len(chunks) = 0 THEN chunks
    ELSE LET scored == [i \in 1..Len(chunks) |->
                          Put(Put(chunks[i], "rerank_score",
                                  predict(m, query, chunks[i]["text"])),
                              "original_score", Get(chunks[i], "score", 0))]
             reranked == SortedByRerankScore(scored)
         IN IF top_k # 0 THEN SubSeq(reranked, 1, Min(top_k, Len(reranked)))
            ELSE reranked

\* predict_invocations without the early return on an empty list
predict_invocations_unguarded(query, chunks) ==
    << [pairs |-> [i \in 1..Len(chunks) |-> <<query, chunks[i]["text"]>>]] >>

\* the calls of self.model.predict that one rerank call makes
predict_invocations(query, chunks) ==
    IF Len(chunks) = 0 THEN <<>>
    ELSE << [pairs |-> [i \in 1..Len(chunks) |-> <<query, chunks[i]["text"]>>]] >>

---------------------------------------------------------------------------
(* generation.py: AnswerGenerator *)

\* the context block built from the chunks in reverse order
Context_reversed(chunks) ==
    [i \in 1..Len(chunks) |->
        [source |-> chunks[Len(chunks) + 1 - i]["source"],
         text |-> chunks[Len(chunks) + 1 - i]["text"]]]

\* the context block: one "Document: source / text" entry per chunk, in order
Context(chunks) ==
    [i \in 1..Len(chunks) |-> [source |-> chunks[i]["source"], text |-> chunks[i]["text"]]]

\* response.content is whatever the backend returns for the messages
generate(query, chunks, content) == content

---------------------------------------------------------------------------
(* graph.py: the nodes.  Each returns the new state and the dependency    *)
(* invocations it made.                                                   *)

BlockedError == "Query blocked: potential injection attempt detected"

BlockedAnswer ==
    << "Your", "query", "was", "blocked", "for", "security", "reasons.",
       "Please", "rephrase", "your", "question." >>

RetrieveTopKRerank == 20

RetrieveTopK == 5

RerankTopK == 5

\* injection_guard_node writing error whatever the check says
injection_guard_node_error_always(s) ==
    LET result == check(s["query"])
        s1 == Put(s, "is_safe", result.is_safe)
        s2 == Put(s1, "metadata",
                  Put(Get(s1, "metadata", EmptyDict), "injection_check",
                      [is_safe |-> result.is_safe, risk_level |-> result.risk_level]))
        s3 == IF ~result.is_safe
              THEN Put(Put(s2, "error", BlockedError), "answer", BlockedAnswer)
              ELSE Put(s2, "error", BlockedError)
    IN [ state |-> s3,
         calls |-> << [dep |-> "injection_guard", text |-> s["query"]] >> ]

injection_guard_node(s) ==
    LET result == check(s["query"])
        s1 == Put(s, "is_safe", result.is_safe)
        s2 == Put(s1, "metadata",
                  Put(Get(s1, "metadata", EmptyDict), "injection_check",
                      [is_safe |-> result.is_safe, risk_level |-> result.risk_level]))
        s3 == IF ~result.is_safe
              THEN Put(Put(s2, "error", BlockedError), "answer", BlockedAnswer)
              ELSE s2
    IN [ state |-> s3,
         calls |-> << [dep |-> "injection_guard", text |-> s["query"]] >> ]

\* retrieve_node taking a missing is_safe for a blocked request
retrieve_node_default_unsafe(s, n) ==
    IF ~Get(s, "is_safe", FALSE) THEN [state |-> s, calls |-> <<>>]
    ELSE LET top_k == IF Get(s, "use_rerank", FALSE) THEN RetrieveTopKRerank
                      ELSE RetrieveTopK
             chunks == retrieve(n, s["query"], top_k)
             s1 == Put(s, "chunks", chunks)
             s2 == Put(s1, "metadata",
                       Put(Get(s1, "metadata", EmptyDict), "retrieval_count", Len(chunks)))
         IN [ state |-> s2,
              calls |-> << [dep |-> "retriever", query |-> s["query"], top_k |-> top_k] >> ]

\* retrieve_node recording the requested top_k as retrieval_count
retrieve_node_counts_top_k(s, n) ==
    IF ~Get(s, "is_safe", TRUE) THEN [state |-> s, calls |-> <<>>]
    ELSE LET top_k == IF Get(s, "use_rerank", FALSE) THEN RetrieveTopKRerank
                      ELSE RetrieveTopK
             chunks == retrieve(n, s["query"], top_k)
             s1 == Put(s, "chunks", chunks)
             s2 == Put(s1, "metadata",
                       Put(Get(s1, "metadata", EmptyDict), "retrieval_count", top_k))
         IN [ state |-> s2,
              calls |-> << [dep |-> "retriever", query |-> s["query"], top_k |-> top_k] >> ]

\* retrieve_node without the is_safe check
retrieve_node_unguarded(s, n) ==
    LET top_k == IF Get(s, "use_rerank", FALSE) THEN RetrieveTopKRerank
                 ELSE RetrieveTopK
        chunks == retrieve(n, s["query"], top_k)
        s1 == Put(s, "chunks", chunks)
        s2 == Put(s1, "metadata",
                  Put(Get(s1, "metadata", EmptyDict), "retrieval_count", Len(chunks)))
    IN [ state |-> s2,
         calls |-> << [dep |-> "retriever", query |-> s["query"], top_k |-> top_k] >> ]

\* retrieve_node asking for RetrieveTopK whatever use_rerank is
retrieve_node_fixed_k(s, n) ==
    IF ~Get(s, "is_safe", TRUE) THEN [state |-> s, calls |-> <<>>]
    ELSE LET top_k == RetrieveTopK
             chunks == retrieve(n, s["query"], top_k)
             s1 == Put(s, "chunks", chunks)
             s2 == Put(s1, "metadata",
                       Put(Get(s1, "metadata", EmptyDict), "retrieval_count", Len(chunks)))
         IN [ state |-> s2,
              calls |-> << [dep |-> "retriever", query |-> s["query"], top_k |-> top_k] >> ]

retrieve_node(s, n) ==
    IF ~Get(s, "is_safe", TRUE) THEN [state |-> s, calls |-> <<>>]
    ELSE LET top_k == IF Get(s, "use_rerank", FALSE) THEN RetrieveTopKRerank
                      ELSE RetrieveTopK
             chunks == retrieve(n, s["query"], top_k)
             s1 == Put(s, "chunks", chunks)
             s2 == Put(s1, "metadata",
                       Put(Get(s1, "metadata", EmptyDict), "retrieval_count", Len(chunks)))
         IN [ state |-> s2,
              calls |-> << [dep |-> "retriever", query |-> s["query"], top_k |-> top_k] >> ]

\* rerank_node setting retrieval_count to the number of chunks it keeps
rerank_node_updates_count(s, m) ==
    IF ~Get(s, "is_safe", TRUE) THEN [state |-> s, calls |-> <<>>]
    ELSE IF ~Get(s, "use_rerank", FALSE) THEN [state |-> s, calls |-> <<>>]
    ELSE LET chunks == rerank(m, s["query"], s["chunks"], RerankTopK)
             s1 == Put(s, "chunks", chunks)
             s2 == Put(s1, "metadata",
                       Put(Put(Get(s1, "metadata", EmptyDict), "reranked", TRUE),
                           "retrieval_count", Len(chunks)))
         IN [ state |-> s2,
              calls |-> << [dep |-> "reranker", query |-> s["query"],
                            chunks |-> s["chunks"], top_k |-> RerankTopK] >> ]

\* rerank_node leaving the state alone when there is nothing to rerank
rerank_node_skips_empty(s, m) ==
    IF ~Get(s, "is_safe", TRUE) THEN [state |-> s, calls |-> <<>>]
    ELSE IF ~Get(s, "use_rerank", FALSE) THEN [state |-> s, calls |-> <<>>]
    ELSE IF Len(s["chunks"]) = 0 THEN [state |-> s, calls |-> <<>>]
    ELSE LET chunks == rerank(m, s["query"], s["chunks"], RerankTopK)
             s1 == Put(s, "chunks", chunks)
             s2 == Put(s1, "metadata",
                       Put(Get(s1, "metadata", EmptyDict), "reranked", TRUE))
         IN [ state |-> s2,
              calls |-> << [dep |-> "reranker", query |-> s["query"],
                            chunks |-> s["chunks"], top_k |-> RerankTopK] >> ]

\* rerank_node switching use_rerank off once it has reranked
rerank_node_clears_flag(s, m) ==
    IF ~Get(s, "is_safe", TRUE) THEN [state |-> s, calls |-> <<>>]
    ELSE IF ~Get(s, "use_rerank", FALSE) THEN [state |-> s, calls |-> <<>>]
    ELSE LET chunks == rerank(m, s["query"], s["chunks"], RerankTopK)
             s1 == Put(Put(s, "chunks", chunks), "use_rerank", FALSE)
             s2 == Put(s1, "metadata",
                       Put(Get(s1, "metadata", EmptyDict), "reranked", TRUE))
         IN [ state |-> s2,
              calls |-> << [dep |-> "reranker", query |-> s["query"],
                            chunks |-> s["chunks"], top_k |-> RerankTopK] >> ]

\* rerank_node reranking whatever use_rerank is
rerank_node_always(s, m) ==
    IF ~Get(s, "is_safe", TRUE) THEN [state |-> s, calls |-> <<>>]
    ELSE LET chunks == rerank(m, s["query"], s["chunks"], RerankTopK)
             s1 == Put(s, "chunks", chunks)
             s2 == Put(s1, "metadata",
                       Put(Get(s1, "metadata", EmptyDict), "reranked", TRUE))
         IN [ state |-> s2,
              calls |-> << [dep |-> "reranker", query |-> s["query"],
                            chunks |-> s["chunks"], top_k |-> RerankTopK] >> ]

\* rerank_node without the is_safe check
rerank_node_unguarded(s, m) ==
    IF ~Get(s, "use_rerank", FALSE) THEN [state |-> s, calls |-> <<>>]
    ELSE LET chunks == rerank(m, s["query"], s["chunks"], RerankTopK)
             s1 == Put(s, "chunks", chunks)
             s2 == Put(s1, "metadata",
                       Put(Get(s1, "metadata", EmptyDict), "reranked", TRUE))
         IN [ state |-> s2,
              calls |-> << [dep |-> "reranker", query |-> s["query"],
                            chunks |-> s["chunks"], top_k |-> RerankTopK] >> ]

rerank_node(s, m) ==
    IF ~Get(s, "is_safe", TRUE) THEN [state |-> s, calls |-> <<>>]
    ELSE IF ~Get(s, "use_rerank", FALSE) THEN [state |-> s, calls |-> <<>>]
    ELSE LET chunks == rerank(m, s["query"], s["chunks"], RerankTopK)
             s1 == Put(s, "chunks", chunks)
             s2 == Put(s1, "metadata",
                       Put(Get(s1, "metadata", EmptyDict), "reranked", TRUE))
         IN [ state |-> s2,
              calls |-> << [dep |-> "reranker", query |-> s["query"],
                            chunks |-> s["chunks"], top_k |-> RerankTopK] >> ]

\* generate_node without the is_safe check
generate_node_unguarded(s, content) ==
    LET answer == generate(s["query"], s["chunks"], content)
    IN [ state |-> Put(s, "answer", answer),
         calls |-> << [dep |-> "generator", query |-> s["query"],
                       context |-> Context(s["chunks"]), returned |-> answer] >> ]

\* generate_node storing an empty answer whatever the generator returned
generate_node_discards_answer(s, content) ==
    IF ~Get(s, "is_safe", TRUE) THEN [state |-> s, calls |-> <<>>]
    ELSE LET answer == generate(s["query"], s["chunks"], content)
         IN [ state |-> Put(s, "answer", <<>>),
              calls |-> << [dep |-> "generator", query |-> s["query"],
                            context |-> Context(s["chunks"]), returned |-> answer] >> ]

generate_node(s, content) ==
    IF ~Get(s, "is_safe", TRUE) THEN [state |-> s, calls |-> <<>>]
    ELSE LET answer == generate(s["query"], s["chunks"], content)
         IN [ state |-> Put(s, "answer", answer),
              calls |-> << [dep |-> "generator", query |-> s["query"],
                            context |-> Context(s["chunks"]), returned |-> answer] >> ]

\* pii_scrubber_node building metadata anew instead of merging into it
pii_scrubber_node_fresh_metadata(s) ==
    IF ~(Has(s, "answer") /\ Truthy(s["answer"])) THEN [state |-> s, calls |-> <<>>]
    ELSE LET result == scrub(s["answer"])
             s1 == Put(s, "answer", result.text)
             s2 == Put(s1, "metadata",
                       Put(EmptyDict, "pii_scrubbed",
                           [was_scrubbed |-> result.was_scrubbed,
                            pii_types |-> result.pii_detected]))
         IN [ state |-> s2,
              calls |-> << [dep |-> "pii_scrubber", text |-> s["answer"]] >> ]

\* pii_scrubber_node skipping only when the answer key is missing
pii_scrubber_node_if_present(s) ==
    IF ~Has(s, "answer") THEN [state |-> s, calls |-> <<>>]
    ELSE LET result == scrub(s["answer"])
             s1 == Put(s, "answer", result.text)
             s2 == Put(s1, "metadata",
                       Put(Get(s1, "metadata", EmptyDict), "pii_scrubbed",
                           [was_scrubbed |-> result.was_scrubbed,
                            pii_types |-> result.pii_detected]))
         IN [ state |-> s2,
              calls |-> << [dep |-> "pii_scrubber", text |-> s["answer"]] >> ]

pii_scrubber_node(s) ==
    IF ~(Has(s, "answer") /\ Truthy(s["answer"])) THEN [state |-> s, calls |-> <<>>]
    ELSE LET result == scrub(s["answer"])
             s1 == Put(s, "answer", result.text)
             s2 == Put(s1, "metadata",
                       Put(Get(s1, "metadata", EmptyDict), "pii_scrubbed",
                           [was_scrubbed |-> result.was_scrubbed,
                            pii_types |-> result.pii_detected]))
         IN [ state |-> s2,
              calls |-> << [dep |-> "pii_scrubber", text |-> s["answer"]] >> ]

---------------------------------------------------------------------------
(* graph.py: create_rag_graph, the compiled graph *)

\* the edges with rerank left out of the chain
EdgeSkippingRerank(node) ==
    CASE node = "injection_guard" -> "retrieve"
      [] node = "retrieve" -> "generate"
      [] node = "rerank" -> "generate"
      [] node = "generate" -> "pii_scrubber"
      [] node = "pii_scrubber" -> "END"

\* workflow.add_edge(...)
Edge(node) ==
    CASE node = "injection_guard" -> "retrieve"
      [] node = "retrieve" -> "rerank"
      [] node = "rerank" -> "generate"
      [] node = "generate" -> "pii_scrubber"
      [] node = "pii_scrubber" -> "END"

EntryPoint == "injection_guard"

\* generate_pipeline_image.py: the documented flow, with the dashed
\* is_safe=False edge from injection_guard to the end
DocumentedEdge(node, s) ==
    IF node = "injection_guard" /\ ~s["is_safe"] THEN "END" ELSE Edge(node)

---------------------------------------------------------------------------
(* Inputs *)

QueryVocabulary == {"Ignore", "all", "instructions", "SYSTEM:"}

RECURSIVE TextsOver(_, _)
\* every text of at most n lexemes over the vocabulary
TextsOver(vocabulary, n) ==
    IF n = 0 THEN {<<>>}
    ELSE LET shorter == TextsOver(vocabulary, n - 1)
         IN shorter \cup {Append(t, w) : t \in shorter, w \in vocabulary}

Queries == TextsOver(QueryVocabulary, MaxQueryLen) \ {<<>>}

AnswerVocabulary ==
    {"Paris", "alice@example.com", "555-123-4567", "123-45-6789", "4111 1111 1111 1111"}

\* what the generation backend may return, the empty completion included
Contents == TextsOver(AnswerVocabulary, MaxAnswerLen)

\* how many passages the collection may hold
IndexSizes == {0, 3, RetrieveTopK, RetrieveTopKRerank, MaxIndex}

\* the state handed to graph.invoke for one request
FreshState(query, use_rerank) ==
    [query |-> query, use_rerank |-> use_rerank, chunks |-> <<>>, metadata |-> EmptyDict]

IdleApi == [pc |-> "idle"]

IdleUnit == [pc |-> "idle"]

IdlePeer == [pc |-> "idle"]

IdleBackend == [pc |-> "idle"]

IdleSingleton == [pc |-> "idle"]

---------------------------------------------------------------------------
(* One request run through the compiled graph *)

Init ==
    /\ \E q \in Queries : \E r \in BOOLEAN : state = FreshState(q, r)
    /\ entry = state
    /\ pc = EntryPoint
    /\ calls = <<>>
    /\ visited = <<>>
    /\ api = IdleApi
    /\ index \in IndexSizes
    /\ unit = IdleUnit
    /\ peer = IdlePeer
    /\ backend = IdleBackend
    /\ singleton = IdleSingleton

\* a node returned: the graph stores its state and follows the outgoing edge
Returned(r) ==
    /\ state' = r.state
    /\ calls' = calls \o r.calls
    /\ visited' = Append(visited, pc)
    /\ pc' = Edge(pc)
    /\ UNCHANGED <<entry, api, index, unit, peer, backend, singleton>>

\* the node invoking the dependency a second time before it gives up
Raised_after_retry(call) ==
    /\ calls' = calls \o << [k \in DOMAIN call \ {"returned"} |-> call[k]],
                            [k \in DOMAIN call \ {"returned"} |-> call[k]] >>
    /\ visited' = Append(visited, pc)
    /\ pc' = "raised"
    /\ UNCHANGED <<state, entry, api, index, unit, peer, backend, singleton>>

\* a dependency raised inside the node: the exception leaves graph.invoke,
\* the invocation is on record and nothing was returned
Raised(call) ==
    /\ calls' = Append(calls, [k \in DOMAIN call \ {"returned"} |-> call[k]])
    /\ visited' = Append(visited, pc)
    /\ pc' = "raised"
    /\ UNCHANGED <<state, entry, api, index, unit, peer, backend, singleton>>

InjectionGuard ==
    /\ pc = "injection_guard"
    /\ Returned(injection_guard_node(state))

Retrieve ==
    /\ pc = "retrieve"
    /\ Returned(retrieve_node(state, index))

RetrieveRaises ==
    /\ pc = "retrieve"
    /\ Get(state, "is_safe", TRUE)
    /\ Raised(retrieve_node(state, index).calls[1])

Rerank ==
    /\ pc = "rerank"
    /\ \E m \in RelevanceModels : Returned(rerank_node(state, m))

RerankRaises ==
    /\ pc = "rerank"
    /\ Get(state, "is_safe", TRUE)
    /\ Get(state, "use_rerank", FALSE)
    /\ Len(state["chunks"]) > 0
    /\ \E m \in RelevanceModels : Raised(rerank_node(state, m).calls[1])

Generate ==
    /\ pc = "generate"
    /\ \E content \in Contents : Returned(generate_node(state, content))

GenerateRaises ==
    /\ pc = "generate"
    /\ Get(state, "is_safe", TRUE)
    /\ \E content \in Contents : Raised(generate_node(state, content).calls[1])

PiiScrubber ==
    /\ pc = "pii_scrubber"
    /\ Returned(pii_scrubber_node(state))

Next ==
    \/ InjectionGuard
    \/ Retrieve
    \/ RetrieveRaises
    \/ Rerank
    \/ RerankRaises
    \/ Generate
    \/ GenerateRaises
    \/ PiiScrubber

Spec == Init /\ [][Next]_vars

---------------------------------------------------------------------------
(* A node invoked directly, outside the graph, on an arbitrary state *)

\* an optional key: <<>> when absent, <<v>> when present with value v
OptBool == {<<>>, <<TRUE>>, <<FALSE>>}

DirectQueries == {<<"all">>, <<"SYSTEM:">>}

DirectChunks(q) ==
    {<<>>, retrieve(3, q, RetrieveTopK), rerank("ties", q, retrieve(3, q, RetrieveTopK), 0)}

OptAnswer == {<<>>, << <<>> >>, <<BlockedAnswer>>, << <<"alice@example.com">> >>}

OptMetadata ==
    { <<>>,
      <<EmptyDict>>,
      << [injection_check |-> [is_safe |-> FALSE, risk_level |-> "high"]] >>,
      << [retrieval_count |-> 3, reranked |-> TRUE] >> }

OptError == {<<>>, <<BlockedError>>}

MkState(q, ur, safe, ch, ans, md, err) ==
    LET present == {"query", "chunks"}
                   \cup (IF ur # <<>> THEN {"use_rerank"} ELSE {})
                   \cup (IF safe # <<>> THEN {"is_safe"} ELSE {})
                   \cup (IF ans # <<>> THEN {"answer"} ELSE {})
                   \cup (IF md # <<>> THEN {"metadata"} ELSE {})
                   \cup (IF err # <<>> THEN {"error"} ELSE {})
    IN [k \in present |->
           CASE k = "query" -> q
             [] k = "chunks" -> ch
             [] k = "use_rerank" -> ur[1]
             [] k = "is_safe" -> safe[1]
             [] k = "answer" -> ans[1]
             [] k = "metadata" -> md[1]
             [] k = "error" -> err[1]]

InitDirect ==
    /\ \E q \in DirectQueries : \E ur \in OptBool : \E safe \in OptBool :
       \E ch \in DirectChunks(q) : \E ans \in OptAnswer : \E md \in OptMetadata :
       \E err \in OptError :
          state = MkState(q, ur, safe, ch, ans, md, err)
    /\ entry = state
    /\ pc = "direct"
    /\ calls = <<>>
    /\ visited = <<>>
    /\ api = IdleApi
    /\ index \in IndexSizes
    /\ unit = IdleUnit
    /\ peer = IdlePeer
    /\ backend = IdleBackend
    /\ singleton = IdleSingleton

Direct(node, r) ==
    /\ state' = r.state
    /\ calls' = r.calls
    /\ visited' = <<node>>
    /\ pc' = "returned"
    /\ UNCHANGED <<entry, api, index, unit, peer, backend, singleton>>

DirectInjectionGuard ==
    /\ pc = "direct"
    /\ Direct("injection_guard", injection_guard_node(state))

DirectRetrieve ==
    /\ pc = "direct"
    /\ Direct("retrieve", retrieve_node(state, index))

DirectRerank ==
    /\ pc = "direct"
    /\ \E m \in RelevanceModels : Direct("rerank", rerank_node(state, m))

DirectGenerate ==
    /\ pc = "direct"
    /\ \E content \in Contents : Direct("generate", generate_node(state, content))

DirectPiiScrubber ==
    /\ pc = "direct"
    /\ Direct("pii_scrubber", pii_scrubber_node(state))

NextDirect ==
    \/ DirectInjectionGuard
    \/ DirectRetrieve
    \/ DirectRerank
    \/ DirectGenerate
    \/ DirectPiiScrubber

NodeSpec == InitDirect /\ [][NextDirect]_vars

\* graph runs and direct invocations together
PipelineSpec == (Init \/ InitDirect) /\ [][Next \/ NextDirect]_vars

---------------------------------------------------------------------------
(* api/main.py: POST /ask *)

ApiQueries == {<<"Ignore", "all", "instructions">>, <<"capital", "of", "France">>}

\* AskRequest.top_k: ge=1, le=20
TopKValues == {1, RetrieveTopK, RetrieveTopKRerank}

\* chunk["source"].split("/")[-1]
Basename(source) ==
    CASE source = "data/documents/france.md" -> "france.md"
      [] source = "data/documents/cities.md" -> "cities.md"
      [] OTHER -> source

\* the citations scored by the retrieval score whether reranked or not
Citations_retrieval_score(chunks) ==
    [i \in 1..Len(chunks) |->
        [ document |-> Basename(chunks[i]["source"]),
          chunk_id |-> i - 1,
          text |-> chunks[i]["text"],
          score |-> Get(chunks[i], "score", 0) ]]

Citations(chunks) ==
    [i \in 1..Len(chunks) |->
        [ document |-> Basename(chunks[i]["source"]),
          chunk_id |-> i - 1,
          text |-> chunks[i]["text"],
          score |-> Get(chunks[i], "rerank_score", Get(chunks[i], "score", 0)) ]]

\* str(e) of the exception a dependency raises
Diagnostics(dep) ==
    CASE dep = "retriever" -> "qdrant connection refused http://qdrant:6333"
      [] dep = "reranker" -> "cross-encoder predict failed"
      [] dep = "generator" -> "llm backend timeout http://host.docker.internal:1234/v1"

InitApi ==
    /\ \E q \in ApiQueries : \E k \in TopKValues : \E r \in BOOLEAN : \E key \in BOOLEAN :
          api = [pc |-> "verify_api_key", query |-> q, top_k |-> k, use_rerank |-> r,
                 key_ok |-> key]
    /\ state = EmptyDict
    /\ entry = EmptyDict
    /\ pc = "unused"
    /\ calls = <<>>
    /\ visited = <<>>
    /\ index \in IndexSizes
    /\ unit = IdleUnit
    /\ peer = IdlePeer
    /\ backend = IdleBackend
    /\ singleton = IdleSingleton

ApiStep(a, newcalls) ==
    /\ api' = a
    /\ calls' = calls \o newcalls
    /\ UNCHANGED <<state, entry, pc, visited, index, unit, peer, backend, singleton>>

\* except Exception as e: raise HTTPException(500, f"Internal error: {str(e)}")
ApiFails(dep, call) ==
    ApiStep([api EXCEPT !.pc = "responded"]
              @@ [status |-> 500, detail |-> <<"Internal error: ", Diagnostics(dep)>>],
            <<call>>)

VerifyApiKey ==
    /\ api.pc = "verify_api_key"
    /\ IF api.key_ok
       THEN ApiStep([api EXCEPT !.pc = "retrieve"], <<>>)
       ELSE ApiStep([api EXCEPT !.pc = "responded"]
                      @@ [status |-> 403, detail |-> <<"Invalid API key">>], <<>>)

ApiRetrieveCall == [dep |-> "retriever", query |-> api.query, top_k |-> api.top_k]

ApiRetrieve ==
    /\ api.pc = "retrieve"
    /\ ApiStep([api EXCEPT !.pc = "rerank"]
                 @@ [chunks |-> retrieve(index, api.query, api.top_k)],
               <<ApiRetrieveCall>>)

ApiRetrieveRaises ==
    /\ api.pc = "retrieve"
    /\ ApiFails("retriever", ApiRetrieveCall)

ApiRerankCall ==
    [dep |-> "reranker", query |-> api.query, chunks |-> api.chunks, top_k |-> api.top_k]

ApiRerank ==
    /\ api.pc = "rerank"
    /\ IF api.use_rerank
       THEN \E m \in RelevanceModels :
               ApiStep([api EXCEPT !.pc = "generate",
                                   !.chunks = rerank(m, api.query, api.chunks, api.top_k)],
                       <<ApiRerankCall>>)
       ELSE ApiStep([api EXCEPT !.pc = "generate"], <<>>)

ApiRerankRaises ==
    /\ api.pc = "rerank"
    /\ api.use_rerank
    /\ Len(api.chunks) > 0
    /\ ApiFails("reranker", ApiRerankCall)

ApiGenerateCall ==
    [dep |-> "generator", query |-> api.query, context |-> Context(api.chunks)]

ApiGenerate ==
    /\ api.pc = "generate"
    /\ \E content \in Contents :
          ApiStep([api EXCEPT !.pc = "respond"]
                    @@ [answer |-> generate(api.query, api.chunks, content)],
                  <<ApiGenerateCall>>)

ApiGenerateRaises ==
    /\ api.pc = "generate"
    /\ ApiFails("generator", ApiGenerateCall)

ApiRespond ==
    /\ api.pc = "respond"
    /\ ApiStep([api EXCEPT !.pc = "responded"]
                 @@ [ status |-> 200,
                      answer_sent |-> api.answer,
                      citations |-> Citations(api.chunks),
                      metadata |-> [ query |-> api.query,
                                     top_k |-> api.top_k,
                                     use_rerank |-> api.use_rerank,
                                     chunks_retrieved |-> Len(api.chunks) ] ],
               <<>>)

NextApi ==
    \/ VerifyApiKey
    \/ ApiRetrieve
    \/ ApiRetrieveRaises
    \/ ApiRerank
    \/ ApiRerankRaises
    \/ ApiGenerate
    \/ ApiGenerateRaises
    \/ ApiRespond

ApiSpec == InitApi /\ [][NextApi]_vars

---------------------------------------------------------------------------
(* DocumentReranker.rerank called on its own, on any candidate list *)

MaxCandidates == 3

CandidateTexts == {1, 2, 3}

PriorScores == {1, 2}

Candidates ==
    {[text |-> t, source |-> SourceOf(t), score |-> sc] :
        t \in CandidateTexts, sc \in PriorScores}

CandidateLists == UNION {[1..n -> Candidates] : n \in 0..MaxCandidates}

\* 0 stands for top_k left unspecified
TopKs == 0..(MaxCandidates + 1)

\* the same candidates in another prior ranking: reordered by p, the prior
\* scores descending along the new order
Reprioritised(chunks, p) ==
    [i \in 1..Len(chunks) |->
        [chunks[p[i]] EXCEPT !["score"] = Len(chunks) + 1 - i]]

Reorderings(n) ==
    { [i \in 1..n |-> n + 1 - i], [i \in 1..n |-> (i % n) + 1] }

InitRerank ==
    /\ unit \in [pc : {"called"}, model : RelevanceModels, query : {<<"all">>},
                  chunks : CandidateLists, top_k : TopKs]
    /\ state = EmptyDict
    /\ entry = EmptyDict
    /\ pc = "unused"
    /\ calls = <<>>
    /\ visited = <<>>
    /\ api = IdleApi
    /\ index = 0
    /\ peer = IdlePeer
    /\ backend = IdleBackend
    /\ singleton = IdleSingleton

UnitStep(u) ==
    /\ unit' = u
    /\ UNCHANGED <<state, pc, calls, visited, entry, api, index, peer, backend, singleton>>

\* rerank returns
RerankCall ==
    /\ unit.pc = "called"
    /\ UnitStep([unit EXCEPT !.pc = "returned"]
                 @@ [result |-> rerank(unit.model, unit.query, unit.chunks, unit.top_k),
                     predictions |-> predict_invocations(unit.query, unit.chunks)])

\* self.model.predict raises and the exception leaves rerank
RerankCallRaises ==
    /\ unit.pc = "called"
    /\ predict_invocations(unit.query, unit.chunks) # <<>>
    /\ UnitStep([unit EXCEPT !.pc = "raised"]
                 @@ [predictions |-> predict_invocations(unit.query, unit.chunks)])

\* the returned list is reranked once more, by any reranker
RerankAgain ==
    /\ unit.pc = "returned"
    /\ \E m \in RelevanceModels :
          UnitStep([unit EXCEPT !.pc = "again"]
                   @@ [model2 |-> m,
                       again |-> rerank(m, unit.query, unit.result, unit.top_k)])

\* a second call over the same candidates in another prior ranking
RerankOther ==
    /\ unit.pc = "returned"
    /\ \E p \in Reorderings(Len(unit.chunks)) :
          LET other == Reprioritised(unit.chunks, p)
          IN UnitStep([unit EXCEPT !.pc = "compared"]
                      @@ [other |-> other,
                          other_result |-> rerank(unit.model, unit.query, other,
                                                  unit.top_k)])

NextRerank ==
    \/ RerankCall
    \/ RerankCallRaises
    \/ RerankAgain
    \/ RerankOther

RerankSpec == InitRerank /\ [][NextRerank]_vars

\* rerank on its own and inside graph runs
RerankInPipelineSpec == (Init \/ InitRerank) /\ [][Next \/ NextRerank]_vars

---------------------------------------------------------------------------
(* InjectionGuard.check and PIIScrubber.scrub called on their own *)

MaxPiiLen == 4

GuardVocabulary ==
    QueryVocabulary \cup {"disregard", "new", "instructions:", "EVERYTHING"}

GuardTexts == TextsOver(GuardVocabulary, MaxQueryLen)

PiiVocabulary == AnswerVocabulary \cup {"555-123-4567@example.com"}

PiiTexts == TextsOver(PiiVocabulary, MaxPiiLen)

InitSafety ==
    /\ \/ unit \in [pc : {"called"}, fn : {"check"}, text : GuardTexts,
                     guard : {injection_patterns}]
       \/ unit \in [pc : {"called"}, fn : {"scrub"}, text : PiiTexts]
    /\ state = EmptyDict
    /\ entry = EmptyDict
    /\ pc = "unused"
    /\ calls = <<>>
    /\ visited = <<>>
    /\ api = IdleApi
    /\ index = 0
    /\ peer = IdlePeer
    /\ backend = IdleBackend
    /\ singleton = IdleSingleton

\* guard.check(text) returns; it assigns no attribute of the guard
CheckCall ==
    /\ unit.pc = "called"
    /\ unit.fn = "check"
    /\ UnitStep([unit EXCEPT !.pc = "returned"] @@ [result |-> check(unit.text)])

\* scrubber.scrub(text) returns
ScrubCall ==
    /\ unit.pc = "called"
    /\ unit.fn = "scrub"
    /\ UnitStep([unit EXCEPT !.pc = "returned"] @@ [result |-> scrub(unit.text)])

\* the scrubbed text is handed to scrub once more
ScrubAgain ==
    /\ unit.pc = "returned"
    /\ unit.fn = "scrub"
    /\ UnitStep([unit EXCEPT !.pc = "again"] @@ [again |-> scrub(unit.result.text)])

NextSafety ==
    \/ CheckCall
    \/ ScrubCall
    \/ ScrubAgain

SafetySpec == InitSafety /\ [][NextSafety]_vars

---------------------------------------------------------------------------
(* Two requests run through the compiled graph in one process, against the
   same index and the same dependencies *)

ConcurrentContents == {<<>>, <<"Paris">>, <<"alice@example.com">>}

\* the dependency that raises on every invocation, if any
Failures == {"none", "retriever", "reranker", "generator"}

\* deterministic dependencies: one relevance model, one completion, one
\* failure, the same for every invocation
Backends == [model : RelevanceModels, content : ConcurrentContents, failing : Failures]

ConcurrentIndexSizes == {0, 3, RetrieveTopKRerank}

InitConcurrent ==
    /\ \E q \in DirectQueries : \E r \in BOOLEAN : state = FreshState(q, r)
    /\ entry = state
    /\ pc = EntryPoint
    /\ calls = <<>>
    /\ visited = <<>>
    /\ api = IdleApi
    /\ index \in ConcurrentIndexSizes
    /\ unit = IdleUnit
    /\ \E q \in DirectQueries : \E r \in BOOLEAN :
          peer = [pc |-> EntryPoint, state |-> FreshState(q, r),
                  entry |-> FreshState(q, r), calls |-> <<>>, visited |-> <<>>]
    /\ backend \in Backends
    /\ singleton = IdleSingleton

\* the node function the graph calls at node p, on the state s it is passed
NodeAt(p, s) ==
    CASE p = "injection_guard" -> injection_guard_node(s)
      [] p = "retrieve" -> retrieve_node(s, index)
      [] p = "rerank" -> rerank_node(s, backend.model)
      [] p = "generate" -> generate_node(s, backend.content)
      [] p = "pii_scrubber" -> pii_scrubber_node(s)

\* the node at p invokes its dependency and the dependency raises
DependencyRaises(p, s) ==
    LET r == NodeAt(p, s)
    IN /\ r.calls # <<>>
       /\ r.calls[1].dep = backend.failing
       /\ p = "rerank" => Len(s["chunks"]) > 0

\* the first request runs the node it is at
FirstStage(p) ==
    /\ pc = p
    /\ peer.pc # "idle"
    /\ IF DependencyRaises(p, state)
       THEN Raised(NodeAt(p, state).calls[1])
       ELSE Returned(NodeAt(p, state))

FirstInjectionGuard == FirstStage("injection_guard")

FirstRetrieve == FirstStage("retrieve")

FirstRerank == FirstStage("rerank")

FirstGenerate == FirstStage("generate")

FirstPiiScrubber == FirstStage("pii_scrubber")

PeerReturned(r) ==
    /\ peer' = [peer EXCEPT !.state = r.state,
                            !.calls = @ \o r.calls,
                            !.visited = Append(@, peer.pc),
                            !.pc = Edge(peer.pc)]
    /\ UNCHANGED <<state, pc, calls, visited, entry, api, index, unit, backend, singleton>>

PeerRaised(call) ==
    /\ peer' = [peer EXCEPT !.calls = Append(@, [k \in DOMAIN call \ {"returned"} |-> call[k]]),
                            !.visited = Append(@, peer.pc),
                            !.pc = "raised"]
    /\ UNCHANGED <<state, pc, calls, visited, entry, api, index, unit, backend, singleton>>

\* the second request runs the node it is at
PeerStage(p) ==
    /\ peer.pc = p
    /\ IF DependencyRaises(p, peer.state)
       THEN PeerRaised(NodeAt(p, peer.state).calls[1])
       ELSE PeerReturned(NodeAt(p, peer.state))

PeerInjectionGuard == PeerStage("injection_guard")

\* the second request's retrieve node handed the first request's state object
PeerRetrieve_on_first_state ==
    /\ peer.pc = "retrieve"
    /\ PeerReturned(NodeAt("retrieve", state))

PeerRetrieve == PeerStage("retrieve")

PeerRerank == PeerStage("rerank")

\* the second request taking the answer the first request obtained for the
\* same question instead of invoking the generator
PeerGenerate_cached ==
    /\ peer.pc = "generate"
    /\ IF /\ Get(peer.state, "is_safe", TRUE)
          /\ \E i \in 1..Len(calls) :
                /\ calls[i].dep = "generator"
                /\ "returned" \in DOMAIN calls[i]
                /\ calls[i].query = peer.state["query"]
       THEN LET i == CHOOSE i \in 1..Len(calls) :
                        /\ calls[i].dep = "generator"
                        /\ "returned" \in DOMAIN calls[i]
                        /\ calls[i].query = peer.state["query"]
            IN PeerReturned([state |-> Put(peer.state, "answer", calls[i].returned),
                             calls |-> <<>>])
       ELSE PeerStage("generate")

PeerGenerate == PeerStage("generate")

PeerPiiScrubber == PeerStage("pii_scrubber")

NextConcurrent ==
    \/ FirstInjectionGuard
    \/ FirstRetrieve
    \/ FirstRerank
    \/ FirstGenerate
    \/ FirstPiiScrubber
    \/ PeerInjectionGuard
    \/ PeerRetrieve
    \/ PeerRerank
    \/ PeerGenerate
    \/ PeerPiiScrubber

ConcurrentSpec == InitConcurrent /\ [][NextConcurrent]_vars

---------------------------------------------------------------------------
(* The lazily constructed module-level instances and their get_* functions *)

MaxCallers == 2

Components ==
    {"retriever", "reranker", "generator", "pii_scrubber", "injection_guard", "rag_graph"}

\* the module-level name is None (0) until a caller assigns it; callers are at
\* the call, at the constructor, at the assignment, at the return statement
\* or back with a result. serial: the callers are coroutine handlers of the
\* API, which the event loop runs one at a time to their end
InitSingleton ==
    /\ singleton \in [pc : {"loaded"}, component : Components, serial : BOOLEAN,
                       instance : {0}, constructed : {0},
                       callers : {[i \in 1..MaxCallers |-> [pc |-> "called"]]}]
    /\ state = EmptyDict
    /\ entry = EmptyDict
    /\ pc = "unused"
    /\ calls = <<>>
    /\ visited = <<>>
    /\ api = IdleApi
    /\ index = 0
    /\ unit = IdleUnit
    /\ peer = IdlePeer
    /\ backend = IdleBackend

SingletonStep(g) ==
    /\ singleton' = g
    /\ UNCHANGED <<state, pc, calls, visited, entry, api, index, unit, peer, backend>>

\* caller i may run: under the event loop no other caller is inside get_*
MayRun(i) ==
    singleton.serial =>
        \A j \in 1..MaxCallers \ {i} : singleton.callers[j].pc \in {"called", "returned"}

\* if _instance is None:
GetCheck(i) ==
    /\ singleton.callers[i].pc = "called"
    /\ MayRun(i)
    /\ SingletonStep([singleton EXCEPT !.callers[i] =
            [pc |-> IF singleton.instance = 0 THEN "construct" ELSE "return"]])

\* the right-hand side of _instance = Component(): a new object
GetConstruct(i) ==
    /\ singleton.callers[i].pc = "construct"
    /\ SingletonStep([singleton EXCEPT !.constructed = @ + 1,
            !.callers[i] = [pc |-> "assign", made |-> singleton.constructed + 1]])

\* the assignment to the module-level name
GetAssign(i) ==
    /\ singleton.callers[i].pc = "assign"
    /\ SingletonStep([singleton EXCEPT !.instance = singleton.callers[i].made,
            !.callers[i] = [pc |-> "return"]])

\* return _instance
GetReturn(i) ==
    /\ singleton.callers[i].pc = "return"
    /\ SingletonStep([singleton EXCEPT !.callers[i] =
            [pc |-> "returned", result |-> singleton.instance]])

Check == \E i \in 1..MaxCallers : GetCheck(i)

Construct == \E i \in 1..MaxCallers : GetConstruct(i)

Assign == \E i \in 1..MaxCallers : GetAssign(i)

Return == \E i \in 1..MaxCallers : GetReturn(i)

NextSingleton ==
    \/ Check
    \/ Construct
    \/ Assign
    \/ Return

SingletonSpec == InitSingleton /\ [][NextSingleton]_vars

---------------------------------------------------------------------------
(* Properties *)

MatchesInjection(text) == \E i \in 1..Len(injection_patterns) : PatternSearch(i, text)

Blocked(s) == Has(s, "is_safe") /\ ~s["is_safe"]

CallsTo(dep) == {i \in 1..Len(calls) : calls[i].dep = dep}

\* C1: a full graph run on a query that matches an injection pattern ends,
\* for either value of use_rerank, with is_safe = false, no candidates,
\* error set and answer equal to the fixed blocked-request message.
BlockedRunFinalState ==
    (pc = "END" /\ MatchesInjection(entry["query"])) =>
        /\ Has(state, "is_safe") /\ state["is_safe"] = FALSE
        /\ state["chunks"] = <<>>
        /\ Has(state, "error") /\ state["error"] = BlockedError
        /\ Has(state, "answer") /\ state["answer"] = BlockedAnswer

BlockedRunCompleted ==
    /\ pc = "END"
    /\ MatchesInjection(entry["query"])
    /\ entry["use_rerank"] = TRUE
    /\ visited = <<"injection_guard", "retrieve", "rerank", "generate", "pii_scrubber">>

\* C2: in a graph run on a flagged query the retriever, the reranker and the
\* generation backend are never invoked, for either value of use_rerank.
BlockedRunInvokesNoDependency ==
    Blocked(state) =>
        \A i \in 1..Len(calls) : calls[i].dep \notin {"retriever", "reranker", "generator"}

BlockedRunOnlyGuardAndScrubberCalled ==
    /\ pc = "END"
    /\ Blocked(state)
    /\ state["use_rerank"] = TRUE
    /\ CallsTo("injection_guard") # {}

\* C3: every answer POST /ask returns has gone through the injection check
\* before any retrieval was made and through the PII scrubber before it was
\* returned.
AskAnswerIsFiltered ==
    (api.pc = "responded" /\ api.status = 200) =>
        /\ \A i \in CallsTo("retriever") : \E j \in CallsTo("injection_guard") : j < i
        /\ \E j \in CallsTo("pii_scrubber") :
              /\ calls[j].text = api.answer
              /\ api.answer_sent = scrub(api.answer).text

GraphOrder == <<"injection_guard", "retrieve", "rerank", "generate", "pii_scrubber">>

SameOutcome(s, t) ==
    /\ s["is_safe"] = t["is_safe"]
    /\ s["chunks"] = t["chunks"]
    /\ Get(s, "answer", <<>>) = Get(t, "answer", <<>>)
    /\ Has(s, "answer") = Has(t, "answer")
    /\ Get(s, "error", "") = Get(t, "error", "")
    /\ Has(s, "error") = Has(t, "error")
    /\ s["metadata"] = t["metadata"]

\* C5: the compiled graph, which steps a blocked query through every stage,
\* ends with the same is_safe, candidates, answer, error and metadata as the
\* documented machine that goes from the injection check straight to the end
\* (on an unflagged query the two follow the same edges).
GraphEquivalentToDocumentedMachine ==
    LET checked == injection_guard_node(entry).state
    IN pc = "END" =>
          IF DocumentedEdge("injection_guard", checked) = "END"
          THEN SameOutcome(state, checked)
          ELSE \A node \in {"injection_guard", "retrieve", "rerank", "generate",
                            "pii_scrubber"} :
                  DocumentedEdge(node, checked) = Edge(node)

\* C6: once the injection check has set is_safe to false, no later step of
\* the run changes candidates, answer or error.
BlockedFieldsFrozen ==
    [][ Blocked(state) =>
           /\ state'["chunks"] = state["chunks"]
           /\ Has(state', "answer") /\ state'["answer"] = state["answer"]
           /\ Has(state', "error") /\ state'["error"] = state["error"] ]_vars

BlockedRunScrubStepTaken ==
    /\ pc = "END"
    /\ Blocked(state)
    /\ Has(state["metadata"], "pii_scrubbed")
    /\ state["answer"] = BlockedAnswer

\* C7: retrieve, rerank and generate, each invoked directly on any state with
\* is_safe = false, return that state unchanged and invoke no dependency.
BlockedStatePassesThrough ==
    (pc = "returned" /\ Blocked(entry) /\ visited[1] \in {"retrieve", "rerank", "generate"}) =>
        /\ state = entry
        /\ calls = <<>>

BlockedStateReranked ==
    /\ pc = "returned"
    /\ visited = <<"rerank">>
    /\ Blocked(entry)
    /\ Get(entry, "use_rerank", FALSE)
    /\ Len(entry["chunks"]) > 0
    /\ Has(entry, "answer")

\* C8: the scrub stage invoked on a state with is_safe = false, whose answer
\* is the blocked message, does not call the PII scrubber and leaves answer
\* and metadata unchanged.
ScrubSkipsBlockedState ==
    (/\ pc = "returned"
     /\ visited = <<"pii_scrubber">>
     /\ Blocked(entry)
     /\ Has(entry, "answer")
     /\ entry["answer"] = BlockedAnswer) =>
        /\ CallsTo("pii_scrubber") = {}
        /\ state["answer"] = entry["answer"]
        /\ Has(state, "metadata") = Has(entry, "metadata")
        /\ Get(state, "metadata", EmptyDict) = Get(entry, "metadata", EmptyDict)

\* what the scrub stage does when it acts on state s
ScrubApplied(s, t) ==
    /\ Has(t, "metadata")
    /\ t = Put(Put(s, "answer", scrub(s["answer"]).text), "metadata", t["metadata"])
    /\ t["metadata"] =
          Put(Get(s, "metadata", EmptyDict), "pii_scrubbed",
              [was_scrubbed |-> scrub(s["answer"]).was_scrubbed,
               pii_types |-> scrub(s["answer"]).pii_detected])
    /\ calls = << [dep |-> "pii_scrubber", text |-> s["answer"]] >>

\* C9 as stated: the scrub stage is a no-op exactly when answer is unset,
\* otherwise it replaces answer by the scrubbed text and adds pii_scrubbed;
\* so every completed unflagged run has a pii_scrubbed entry at END.
ScrubActsIffAnswerSet ==
    /\ (pc = "returned" /\ visited = <<"pii_scrubber">>) =>
          IF ~Has(entry, "answer")
          THEN state = entry /\ calls = <<>>
          ELSE ScrubApplied(entry, state)
    /\ (pc = "END" /\ ~Blocked(state)) => Has(state["metadata"], "pii_scrubbed")

\* C9 amended: the scrub stage is a no-op exactly when answer is unset or
\* empty, otherwise it replaces answer by the scrubbed text and adds
\* pii_scrubbed; so a completed unflagged run has a pii_scrubbed entry at END
\* exactly when the generator returned a non-empty answer.
ScrubActsIffAnswerNonEmpty ==
    /\ (pc = "returned" /\ visited = <<"pii_scrubber">>) =>
          IF ~Has(entry, "answer") \/ entry["answer"] = <<>>
          THEN state = entry /\ calls = <<>>
          ELSE ScrubApplied(entry, state)
    /\ (pc = "END" /\ ~Blocked(state)) =>
          (Has(state["metadata"], "pii_scrubbed") <=> state["answer"] # <<>>)

UnflaggedRunScrubbed ==
    /\ pc = "END"
    /\ ~Blocked(state)
    /\ Has(state["metadata"], "pii_scrubbed")
    /\ state["metadata"]["pii_scrubbed"].was_scrubbed
    /\ state["answer"] = <<"[EMAIL_REDACTED]">>

\* C10: on a request that is not blocked, the retrieve stage invokes the
\* retriever exactly once, with the request's query and with top_k = 20 when
\* use_rerank is true and 5 when it is false, whatever the other fields are.
RetrieveInvokesRetrieverOnce ==
    ((\E i \in 1..Len(visited) : visited[i] = "retrieve") /\ Get(state, "is_safe", TRUE)) =>
        /\ Cardinality(CallsTo("retriever")) = 1
        /\ \A i \in CallsTo("retriever") :
              calls[i] = [ dep |-> "retriever",
                           query |-> entry["query"],
                           top_k |-> IF Get(entry, "use_rerank", FALSE) THEN 20 ELSE 5 ]

RetrieveInvokedDirectlyWithRerank ==
    /\ pc = "returned"
    /\ visited = <<"retrieve">>
    /\ ~Has(entry, "is_safe")
    /\ Get(entry, "use_rerank", FALSE)
    /\ Has(entry, "answer")
    /\ Cardinality(CallsTo("retriever")) = 1

\* the stage that ran last, and whether a step is that stage running
LastStage == IF visited = <<>> THEN "none" ELSE visited[Len(visited)]

JustRan(node) == pc \in {Edge(node), "returned"} /\ LastStage = node

\* C11: immediately after the retrieve stage on a request that is not
\* blocked, metadata.retrieval_count equals the length of chunks.
RetrievalCountIsNumberOfChunks ==
    (JustRan("retrieve") /\ Get(state, "is_safe", TRUE)) =>
        /\ Has(state, "metadata")
        /\ Has(state["metadata"], "retrieval_count")
        /\ state["metadata"]["retrieval_count"] = Len(state["chunks"])

RetrievedFewerThanRequested ==
    /\ pc = "rerank"
    /\ LastStage = "retrieve"
    /\ state["use_rerank"]
    /\ Len(state["chunks"]) = 3
    /\ state["metadata"]["retrieval_count"] = 3

\* the top_k the retrieve stage asks for on state s
RequestedTopK(s) == IF Get(s, "use_rerank", FALSE) THEN 20 ELSE 5

\* C12 as stated: for every request that is not blocked,
\* metadata.retrieval_count is 20 when use_rerank is true and 5 when false.
RetrievalCountIsTopK ==
    ((\E i \in 1..Len(visited) : visited[i] = "retrieve") /\ pc # "raised"
        /\ Get(state, "is_safe", TRUE)) =>
        state["metadata"]["retrieval_count"] = RequestedTopK(state)

\* C12 amended: for every request that is not blocked,
\* metadata.retrieval_count is the smaller of the requested top_k (20 when
\* use_rerank is true, 5 when false) and the number of indexed passages.
RetrievalCountIsTopKOrIndexSize ==
    ((\E i \in 1..Len(visited) : visited[i] = "retrieve") /\ pc # "raised"
        /\ Get(state, "is_safe", TRUE)) =>
        state["metadata"]["retrieval_count"] = Min(RequestedTopK(state), index)

SmallIndexRunCompleted ==
    /\ pc = "END"
    /\ ~Blocked(state)
    /\ state["use_rerank"]
    /\ index = 3
    /\ state["metadata"]["retrieval_count"] = 3

\* the calls a step adds to the log
NewCalls == SubSeq(calls', Len(calls) + 1, Len(calls'))

RerankRuns ==
    \/ pc = "rerank" /\ pc' = Edge("rerank")
    \/ pc = "direct" /\ visited' = <<"rerank">>

RerankStep ==
    RerankRuns =>
        IF ~Get(state, "use_rerank", FALSE)
        THEN state' = state /\ NewCalls = <<>>
        ELSE Get(state, "is_safe", TRUE) =>
               /\ NewCalls = << [dep |-> "reranker", query |-> state["query"],
                                 chunks |-> state["chunks"], top_k |-> 5] >>
               /\ \E m \in RelevanceModels :
                     state'["chunks"] = rerank(m, state["query"], state["chunks"], 5)
               /\ state'["metadata"] =
                     Put(Get(state, "metadata", EmptyDict), "reranked", TRUE)
               /\ \A k \in DOMAIN state \ {"chunks", "metadata"} :
                     state'[k] = state[k]

\* C13: the rerank stage leaves the state unchanged and does not invoke the
\* reranker when use_rerank is false; when use_rerank is true on a request that
\* is not blocked it invokes the reranker once with top_k = 5, replaces chunks
\* by the result and sets metadata.reranked = true; so at END reranked is
\* present iff the request was safe and use_rerank was true.
RerankActsIffUseRerank ==
    /\ [][RerankStep]_vars
    /\ [](pc = "END" =>
            (Has(state["metadata"], "reranked")
                <=> (~Blocked(state) /\ state["use_rerank"])))

RerankedRunCompleted ==
    /\ pc = "END"
    /\ ~Blocked(state)
    /\ state["use_rerank"]
    /\ state["metadata"]["reranked"]
    /\ Len(state["chunks"]) = 5
    /\ Cardinality(CallsTo("reranker")) = 1

\* seq is in non-increasing order of rerank_score
DescendingByRerankScore(seq) ==
    \A i \in 1..(Len(seq) - 1) : seq[i]["rerank_score"] >= seq[i + 1]["rerank_score"]

\* C14: for every query, every non-empty candidate list and every top_k, the
\* list rerank returns is in non-increasing order of rerank_score.
RerankResultDescending ==
    /\ (unit.pc \in {"returned", "again", "compared"} /\ Len(unit.chunks) > 0) =>
          DescendingByRerankScore(unit.result)
    /\ (unit.pc = "again" /\ Len(unit.result) > 0) =>
          DescendingByRerankScore(unit.again)
    /\ (unit.pc = "compared" /\ Len(unit.other) > 0) =>
          DescendingByRerankScore(unit.other_result)

RerankReorderedThree ==
    /\ unit.pc = "returned"
    /\ unit.model = "reverse"
    /\ [i \in 1..Len(unit.chunks) |-> unit.chunks[i]["text"]] = <<1, 3, 2>>
    /\ [i \in 1..Len(unit.result) |-> unit.result[i]["text"]] = <<3, 2, 1>>

\* C16: rerank called with an empty candidate list returns that list
\* unchanged, without invoking the relevance model and without raising an
\* error, for every top_k.
RerankOfEmptyListIsNoOp ==
    (unit.pc \notin {"idle", "called"} /\ unit.chunks = <<>>) =>
        /\ unit.pc # "raised"
        /\ unit.result = unit.chunks
        /\ unit.predictions = <<>>

RerankOfEmptyListReturned ==
    /\ unit.pc = "returned"
    /\ unit.chunks = <<>>
    /\ unit.top_k = 2
    /\ unit.result = <<>>

\* every chunk of output is a chunk of input with rerank_score set to the
\* model's relevance for (query, text) and original_score to its score
ScoredFrom(m, query, input, output) ==
    \A j \in 1..Len(output) : \E i \in 1..Len(input) :
        /\ output[j] = Put(Put(input[i], "rerank_score",
                               predict(m, query, input[i]["text"])),
                           "original_score", input[i]["score"])
        /\ output[j]["score"] = input[i]["score"]
        /\ output[j]["text"] = input[i]["text"]
        /\ output[j]["source"] = input[i]["source"]

\* C17: after rerank every returned candidate carries a rerank_score produced
\* by the relevance model for (query, candidate text) and an original_score
\* equal to the score it had before, and its score, text and source are
\* unchanged; the same holds when a reranked list is reranked again.
RerankSetsScoresOnly ==
    /\ unit.pc \in {"returned", "again", "compared"} =>
          ScoredFrom(unit.model, unit.query, unit.chunks, unit.result)
    /\ unit.pc = "again" =>
          ScoredFrom(unit.model2, unit.query, unit.result, unit.again)

RerankedListRerankedAgain ==
    /\ unit.pc = "again"
    /\ unit.model = "coarse"
    /\ unit.model2 = "reverse"
    /\ Len(unit.again) = 3
    /\ unit.again[1]["rerank_score"] = 3
    /\ unit.again[1]["original_score"] = 2
    /\ unit.again[2]["original_score"] = 1

\* the same input candidate: text, source and prior score
SameCandidate(c, d) ==
    c["text"] = d["text"] /\ c["source"] = d["source"] /\ c["score"] = d["score"]

CountIn(seq, c) == Cardinality({i \in 1..Len(seq) : SameCandidate(seq[i], c)})

\* C18: for top_k >= 1 and n input candidates rerank returns exactly
\* min(top_k, n) candidates, each an input candidate taken at most once, and
\* no candidate left out has a strictly higher rerank_score than a returned
\* one; with top_k unspecified all n are returned.
RerankReturnsTopK ==
    unit.pc \in {"returned", "again", "compared"} =>
        LET n == Len(unit.chunks)
            r == unit.result
        IN /\ unit.top_k >= 1 => Len(r) = Min(unit.top_k, n)
           /\ unit.top_k = 0 => Len(r) = n
           /\ \A j \in 1..Len(r) :
                 /\ CountIn(unit.chunks, r[j]) >= 1
                 /\ CountIn(r, r[j]) <= CountIn(unit.chunks, r[j])
           /\ \A i \in 1..n :
                 CountIn(r, unit.chunks[i]) < CountIn(unit.chunks, unit.chunks[i]) =>
                    \A j \in 1..Len(r) :
                       predict(unit.model, unit.query, unit.chunks[i]["text"])
                          <= r[j]["rerank_score"]

RerankTruncatedToTwo ==
    /\ unit.pc = "returned"
    /\ unit.model = "reverse"
    /\ unit.top_k = 2
    /\ [i \in 1..Len(unit.chunks) |-> unit.chunks[i]["text"]] = <<1, 2, 3>>
    /\ [i \in 1..Len(unit.result) |-> unit.result[i]["text"]] = <<3, 2>>

\* which candidates a list holds, in order
OrderOf(seq) == [i \in 1..Len(seq) |-> [text |-> seq[i]["text"], source |-> seq[i]["source"]]]

\* C19 as stated: two rerank calls over the same candidates with the same
\* rerank_scores but different prior scores, hence a different prior ranking,
\* return the candidates in the same order.
PriorRankingHasNoInfluence ==
    unit.pc = "compared" => OrderOf(unit.other_result) = OrderOf(unit.result)

\* no two different candidates of chunks get the same rerank_score
NoTies(m, query, chunks) ==
    \A i, j \in 1..Len(chunks) :
        chunks[i]["text"] # chunks[j]["text"] =>
            predict(m, query, chunks[i]["text"]) # predict(m, query, chunks[j]["text"])

\* C19 amended: two rerank calls over the same candidates with the same
\* rerank_scores but different prior scores, hence a different prior ranking,
\* return the candidates in the same order provided no two different
\* candidates have equal rerank_scores.
PriorRankingHasNoInfluenceWithoutTies ==
    (unit.pc = "compared" /\ NoTies(unit.model, unit.query, unit.chunks)) =>
        OrderOf(unit.other_result) = OrderOf(unit.result)

OtherPriorRankingSameOrder ==
    /\ unit.pc = "compared"
    /\ unit.model = "ties"
    /\ unit.top_k = 2
    /\ [i \in 1..Len(unit.chunks) |-> unit.chunks[i]["text"]] = <<1, 2, 3>>
    /\ [i \in 1..Len(unit.other) |-> unit.other[i]["text"]] = <<3, 2, 1>>
    /\ [i \in 1..Len(unit.result) |-> unit.result[i]["text"]] = <<2, 1>>
    /\ [i \in 1..Len(unit.other_result) |-> unit.other_result[i]["text"]] = <<2, 1>>

DescendingByScore(seq) ==
    \A i \in 1..(Len(seq) - 1) : seq[i]["score"] >= seq[i + 1]["score"]

\* C15: in every state of a run after the retrieve stage, chunks is in
\* non-increasing order of the most recently assigned score: by score after
\* retrieval alone, by rerank_score once the rerank stage has reranked.
ChunksDescendingByLatestScore ==
    (\E i \in 1..Len(visited) : visited[i] = "retrieve") =>
        IF Has(state["metadata"], "reranked")
        THEN DescendingByRerankScore(state["chunks"])
        ELSE DescendingByScore(state["chunks"])

RerankedAgainstRetrievalOrder ==
    /\ pc = "END"
    /\ Has(state["metadata"], "reranked")
    /\ Len(state["chunks"]) = 5
    /\ state["chunks"][1]["rerank_score"] > state["chunks"][5]["rerank_score"]
    /\ state["chunks"][1]["score"] < state["chunks"][5]["score"]

\* C20: the context generate submits to the backend lists the chunks in
\* exactly the order of the chunks sequence it is given, each tagged with its
\* source; in a run of the graph that is the reranked top-5 order when
\* reranking ran and the retrieval order otherwise.
ContextFollowsChunksOrder ==
    \A i \in CallsTo("generator") :
        /\ calls[i].context = OrderOf(state["chunks"])
        /\ pc \notin {"direct", "returned"} =>
              IF entry["use_rerank"]
              THEN \E m \in RelevanceModels :
                      calls[i].context =
                          OrderOf(rerank(m, entry["query"],
                                         retrieve(index, entry["query"], 20), 5))
              ELSE calls[i].context = OrderOf(retrieve(index, entry["query"], 5))

RerankedContextSubmitted ==
    /\ pc = "END"
    /\ entry["use_rerank"]
    /\ index = 20
    /\ \E i \in CallsTo("generator") :
          [j \in 1..Len(calls[i].context) |-> calls[i].context[j].text]
              = <<20, 19, 18, 17, 16>>

\* a step is the stage node running to completion, in the graph or directly
StageRuns(node) ==
    \/ pc = node /\ pc' = Edge(node)
    \/ pc = "direct" /\ visited' = <<node>>

\* the metadata key each stage writes; generate writes none
StageKey ==
    [ injection_guard |-> "injection_check", retrieve |-> "retrieval_count",
      rerank |-> "reranked", pii_scrubber |-> "pii_scrubbed" ]

MetadataStep ==
    LET old == Get(state, "metadata", EmptyDict)
        new == Get(state', "metadata", EmptyDict)
    IN /\ \A k \in DOMAIN old : k \in DOMAIN new /\ new[k] = old[k]
       /\ (DOMAIN new \ DOMAIN old) \subseteq
             (IF pc \in DOMAIN StageKey THEN {StageKey[pc]} ELSE {})

\* C21: across the stage executions of a run metadata only grows: a key once
\* written is neither removed nor changed by a later stage, and the stages
\* write distinct keys (injection_check, retrieval_count, reranked,
\* pii_scrubbed).
MetadataOnlyGrows == [][MetadataStep]_vars

AllStagesWroteMetadata ==
    /\ pc = "END"
    /\ DOMAIN state["metadata"] =
          {"injection_check", "retrieval_count", "reranked", "pii_scrubbed"}

\* C22: no stage changes query or use_rerank: in every state, and so at END,
\* they have the values they had at entry, on blocked and non-blocked runs.
QueryAndUseRerankImmutable ==
    pc \notin {"unused"} =>
        /\ Has(state, "query") /\ state["query"] = entry["query"]
        /\ Has(state, "use_rerank") <=> Has(entry, "use_rerank")
        /\ Has(state, "use_rerank") => state["use_rerank"] = entry["use_rerank"]

RerankedRunKeptInputs ==
    /\ pc = "END"
    /\ state["metadata"]["injection_check"].is_safe
    /\ Has(state["metadata"], "reranked")
    /\ state["use_rerank"]
    /\ state["query"] = entry["query"]
    /\ state["chunks"] # entry["chunks"]

IsSafeStep ==
    IF StageRuns("injection_guard")
    THEN /\ Has(state', "is_safe")
         /\ state'["is_safe"] = check(state["query"]).is_safe
    ELSE /\ Has(state', "is_safe") <=> Has(state, "is_safe")
         /\ Has(state, "is_safe") => state'["is_safe"] = state["is_safe"]

\* a stage other than the guard, invoked on a state without is_safe, acted
TreatedAsSafe ==
    (pc = "returned" /\ ~Has(entry, "is_safe")) =>
        /\ visited = <<"retrieve">> => Cardinality(CallsTo("retriever")) = 1
        /\ (visited = <<"rerank">> /\ Get(entry, "use_rerank", FALSE)) =>
               Cardinality(CallsTo("reranker")) = 1
        /\ visited = <<"generate">> => Cardinality(CallsTo("generator")) = 1

\* C23: is_safe is written exactly once per run, by the injection stage;
\* retrieve, rerank, generate and scrub never write it, so its value after the
\* injection stage is its value at END; a later stage that finds no is_safe
\* treats the request as safe.
IsSafeWrittenOnceByGuard ==
    /\ [][IsSafeStep]_vars
    /\ [](pc \in {"injection_guard"} => ~Has(state, "is_safe"))
    /\ [](pc = "END" => state["is_safe"] = check(entry["query"]).is_safe)
    /\ []TreatedAsSafe

GenerateInvokedWithoutIsSafe ==
    /\ pc = "returned"
    /\ visited = <<"generate">>
    /\ ~Has(entry, "is_safe")
    /\ ~Has(state, "is_safe")
    /\ Has(state, "answer")
    /\ Cardinality(CallsTo("generator")) = 1

\* C25: error is set only on the blocked path: at END error is set iff
\* is_safe is false, and no stage of a run that is not blocked writes error.
ErrorOnlyWhenBlocked ==
    /\ pc = "END" => (Has(state, "error") <=> ~state["is_safe"])
    /\ ~Blocked(state) => ~Has(state, "error")

BlockedRunHasError ==
    /\ pc = "END"
    /\ ~state["is_safe"]
    /\ state["error"] = BlockedError
    /\ state["metadata"]["injection_check"].risk_level = "high"

\* the step sets an answer where there was none
AnswerStep ==
    (~Has(state, "answer") /\ Has(state', "answer")) =>
        \/ /\ StageRuns("injection_guard")
           /\ ~check(state["query"]).is_safe
           /\ state'["answer"] = BlockedAnswer
        \/ /\ StageRuns("generate")
           /\ Len(NewCalls) = 1
           /\ NewCalls[1].dep = "generator"
           /\ state'["answer"] = NewCalls[1].returned

\* C24: answer is set only by the injection stage on a blocked query or by
\* generate: in a run that is not blocked answer stays unset through the
\* injection stage, retrieve and rerank and first becomes set at generate,
\* with the value the generator returned.
AnswerSetByGuardOrGenerate ==
    /\ [][AnswerStep]_vars
    /\ []((pc \in {"injection_guard", "retrieve", "rerank", "generate"}
             /\ ~Blocked(state)) => ~Has(state, "answer"))
    /\ []((pc = "pii_scrubber" /\ ~Blocked(state)) =>
            /\ Has(state, "answer")
            /\ \A i \in CallsTo("generator") : state["answer"] = calls[i].returned)

GeneratedAnswerStored ==
    /\ pc = "pii_scrubber"
    /\ ~Blocked(state)
    /\ state["answer"] = <<"Paris">>
    /\ \E i \in CallsTo("generator") : calls[i].returned = <<"Paris">>

\* the dependency each stage invokes
DependencyOf ==
    [ injection_guard |-> "injection_guard", retrieve |-> "retriever",
      rerank |-> "reranker", generate |-> "generator",
      pii_scrubber |-> "pii_scrubber" ]

\* the run ended in a failure of the dependency of the last stage entered
FailureReachedCaller ==
    LET failing == visited[Len(visited)]
    IN /\ visited = SubSeq(GraphOrder, 1, Len(visited))
       /\ failing \in {"retrieve", "rerank", "generate"}
       /\ calls[Len(calls)].dep = DependencyOf[failing]
       /\ Cardinality(CallsTo(DependencyOf[failing])) = 1
       /\ \A k \in (Len(visited) + 1)..Len(GraphOrder) :
             CallsTo(DependencyOf[GraphOrder[k]]) = {}
       /\ ~Has(state, "answer")

\* a run that is not blocked reached END with every stage completed
CompletedWithoutFailure ==
    /\ visited = GraphOrder
    /\ Has(state["metadata"], "retrieval_count")
    /\ state["use_rerank"] => Has(state["metadata"], "reranked")
    /\ Cardinality(CallsTo("generator")) = 1
    /\ \A i \in CallsTo("generator") : Has(calls[i], "returned")
    /\ Has(state, "answer")

\* C26: when the retriever, the reranker or the generation backend fails
\* inside a stage the pipeline neither swallows nor retries the failure: the
\* failing dependency was invoked exactly once, no later stage runs, no answer
\* is produced and the failure reaches the caller; a blocked query is the only
\* outcome the pipeline itself turns into a normal answer.
DependencyFailurePropagates ==
    /\ [](pc = "raised" => FailureReachedCaller)
    /\ [][pc # "raised"]_vars
    /\ []((pc = "END" /\ ~Blocked(state)) => CompletedWithoutFailure)

RerankerFailureReachedCaller ==
    /\ pc = "raised"
    /\ visited = <<"injection_guard", "retrieve", "rerank">>
    /\ calls[Len(calls)].dep = "reranker"
    /\ ~Has(state, "answer")

\* C27: when a dependency failure reaches the boundary, the response sent to
\* the client is a generic internal-error outcome that contains none of the
\* failure's diagnostic text.
ErrorResponseIsGeneric ==
    (api.pc = "responded" /\ api.status = 500) =>
        \A k \in 1..Len(api.detail) :
            api.detail[k] \notin
                {Diagnostics(dep) : dep \in {"retriever", "reranker", "generator"}}

\* C28: retrieve never returns an empty list when the vector index is empty
\* or unreachable: the call fails instead.
EmptyIndexFailsRetrieval ==
    (index = 0 /\ CallsTo("retriever") # {}) => pc = "raised"

\* the catalogue patterns that match the text
Matching(text) == {i \in 1..Len(injection_patterns) : PatternSearch(i, text)}

CatalogueIndex(pattern) ==
    CHOOSE i \in 1..Len(injection_patterns) : injection_patterns[i] = pattern

\* C29: for every text check returns is_safe = true iff no catalogue pattern
\* matches, risk_level = high iff at least one matches (else none), and
\* detected_patterns holding every matching pattern, not only the first, once
\* each and in catalogue order; the call changes no state of the guard.
CheckReportsEveryMatch ==
    (unit.pc = "returned" /\ unit.fn = "check") =>
        LET r == unit.result
            dp == r.detected_patterns
        IN /\ r.is_safe <=> Matching(unit.text) = {}
           /\ r.risk_level = (IF Matching(unit.text) # {} THEN "high" ELSE "none")
           /\ Len(dp) = Cardinality(Matching(unit.text))
           /\ \A i \in Matching(unit.text) :
                 \E k \in 1..Len(dp) : dp[k] = injection_patterns[i]
           /\ \A k, l \in 1..Len(dp) :
                 k < l => CatalogueIndex(dp[k]) < CatalogueIndex(dp[l])
           /\ unit.guard = injection_patterns

TwoPatternsDetected ==
    /\ unit.pc = "returned"
    /\ unit.fn = "check"
    /\ unit.text = <<"disregard", "new", "instructions:">>
    /\ Len(unit.result.detected_patterns) = 2
    /\ ~unit.result.is_safe

PiiCategories == <<"email", "phone", "ssn", "credit_card">>

\* C30: for every text scrub evaluates each category on the same input text:
\* pii_detected contains a category exactly when that category's detector has
\* a match in the input, once per category and whatever the other categories
\* matched, and was_scrubbed is true iff pii_detected is non-empty.
ScrubReportsEveryCategory ==
    (unit.pc = "returned" /\ unit.fn = "scrub") =>
        LET r == unit.result
        IN /\ \A c \in 1..Len(PiiCategories) :
                 Cardinality({k \in 1..Len(r.pii_detected) :
                                 r.pii_detected[k] = PiiCategories[c]})
                    = (IF Search(PiiCategories[c], unit.text) THEN 1 ELSE 0)
           /\ r.was_scrubbed <=> Len(r.pii_detected) > 0

FourPiiText ==
    <<"alice@example.com", "555-123-4567", "123-45-6789", "4111 1111 1111 1111">>

\* C31: scrubbing is idempotent for every text x: scrub(scrub(x).text) returns
\* the text of scrub(x) and detects nothing, the scrubbed text holding no
\* match of the email, phone, SSN or card detector; the text with
\* alice@example.com, 555-123-4567, 123-45-6789 and 4111 1111 1111 1111 has
\* pii_detected exactly {email, phone, ssn, credit_card}.
ScrubIsIdempotent ==
    (unit.pc = "again" /\ unit.fn = "scrub") =>
        /\ unit.again.text = unit.result.text
        /\ unit.again.pii_detected = <<>>
        /\ ~unit.again.was_scrubbed
        /\ \A c \in 1..Len(PiiCategories) :
              ~Search(PiiCategories[c], unit.result.text)
        /\ unit.text = FourPiiText =>
              unit.result.pii_detected = <<"email", "phone", "ssn", "credit_card">>

FourPiiTextScrubbedTwice ==
    /\ unit.pc = "again"
    /\ unit.fn = "scrub"
    /\ unit.text = FourPiiText
    /\ unit.again.text =
          <<"[EMAIL_REDACTED]", "[PHONE_REDACTED]", "[SSN_REDACTED]", "[CC_REDACTED]">>

\* C34: for every chunk of the outbound response the citation score is the
\* chunk's rerank_score when it has one and its retrieval score otherwise, and
\* the citations are in the order of the final chunks.
CitationScorePrefersRerankScore ==
    (api.pc = "responded" /\ api.status = 200) =>
        /\ Len(api.citations) = Len(api.chunks)
        /\ \A i \in 1..Len(api.chunks) :
              /\ api.citations[i].score =
                    (IF Has(api.chunks[i], "rerank_score")
                     THEN api.chunks[i]["rerank_score"]
                     ELSE api.chunks[i]["score"])
              /\ api.citations[i].text = api.chunks[i]["text"]
              /\ api.citations[i].document = Basename(api.chunks[i]["source"])
              /\ api.citations[i].chunk_id = i - 1

RerankedCitationsSent ==
    /\ api.pc = "responded"
    /\ api.status = 200
    /\ api.use_rerank
    /\ Len(api.citations) = 5
    /\ api.citations[1].score = api.chunks[1]["rerank_score"]
    /\ api.citations[1].score # api.chunks[1]["score"]

\* C36: at END of every completed run that is not blocked chunks holds at
\* most 5 entries; when use_rerank is true its length is
\* min(5, retrieval_count), and retrieval_count still is the number of chunks
\* retrieved, since the rerank stage does not update it.
FinalChunksAtMostFive ==
    (pc = "END" /\ ~Blocked(state)) =>
        /\ Len(state["chunks"]) <= 5
        /\ state["use_rerank"] =>
              /\ Len(state["chunks"]) = Min(5, state["metadata"]["retrieval_count"])
              /\ state["metadata"]["retrieval_count"] =
                    Len(retrieve(index, state["query"], 20))

TwentyRetrievedFiveKept ==
    /\ pc = "END"
    /\ ~Blocked(state)
    /\ state["use_rerank"]
    /\ state["metadata"]["retrieval_count"] = 20
    /\ Len(state["chunks"]) = 5

\* the input candidate a chunk stands for
CandidateOf(c) == [text |-> c["text"], source |-> c["source"], score |-> c["score"]]

\* the candidates of seq whose relevance under m is v, in the order of seq
TiedAt(m, query, seq, v) ==
    LET Tied(c) == predict(m, query, c["text"]) = v
        tied == SelectSeq(seq, Tied)
    IN [i \in 1..Len(tied) |-> CandidateOf(tied[i])]

\* C37: rerank is stable on ties: candidates with equal rerank_scores come
\* out in the relative order they had in the input, so in a run of the graph
\* ties are broken by retrieval rank.
RerankStableOnTies ==
    /\ unit.pc \in {"returned", "again", "compared"} =>
          \A j \in 1..Len(unit.result) :
              LET v == unit.result[j]["rerank_score"]
                  out == TiedAt(unit.model, unit.query, unit.result, v)
                  inp == TiedAt(unit.model, unit.query, unit.chunks, v)
              IN /\ Len(out) <= Len(inp)
                 /\ out = SubSeq(inp, 1, Len(out))
    /\ (pc \in {"generate", "pii_scrubber", "END", "raised"}
          /\ Has(state["metadata"], "reranked")) =>
          \A j, l \in 1..Len(state["chunks"]) :
              (j < l /\ state["chunks"][j]["rerank_score"]
                          = state["chunks"][l]["rerank_score"]) =>
                 /\ state["chunks"][j]["text"] < state["chunks"][l]["text"]
                 /\ state["chunks"][j]["score"] >= state["chunks"][l]["score"]

TiedCandidatesKeptInputOrder ==
    /\ unit.pc = "returned"
    /\ unit.model = "coarse"
    /\ [i \in 1..Len(unit.chunks) |-> unit.chunks[i]["text"]] = <<1, 3, 2>>
    /\ [i \in 1..Len(unit.result) |-> unit.result[i]["text"]] = <<3, 2, 1>>

EmptyRetrievalStep ==
    (index = 0 /\ pc = "rerank" /\ ~Blocked(state)) => pc' = "generate"

\* C38: when the retriever returns an empty list for a request that is not
\* blocked the run does not stop: retrieval_count is recorded as 0, the rerank
\* stage (when use_rerank is true) passes the empty list through and still
\* records reranked = true, and generate invokes the backend with an empty
\* context.
EmptyRetrievalContinues ==
    /\ [][EmptyRetrievalStep]_vars
    /\ []((index = 0 /\ ~Blocked(state)
             /\ pc \in {"rerank", "generate", "pii_scrubber", "END"}) =>
            /\ state["metadata"]["retrieval_count"] = 0
            /\ state["chunks"] = <<>>)
    /\ []((index = 0 /\ ~Blocked(state) /\ state["use_rerank"]
             /\ pc \in {"generate", "pii_scrubber", "END"}) =>
            /\ Has(state["metadata"], "reranked")
            /\ state["metadata"]["reranked"]
            /\ \A i \in CallsTo("reranker") : calls[i].chunks = <<>>
            /\ Cardinality(CallsTo("reranker")) = 1)
    /\ []((index = 0 /\ ~Blocked(state) /\ pc \in {"pii_scrubber", "END"}) =>
            /\ Cardinality(CallsTo("generator")) = 1
            /\ \A i \in CallsTo("generator") : calls[i].context = <<>>)

EmptyRetrievalRunCompleted ==
    /\ pc = "END"
    /\ index = 0
    /\ ~Blocked(state)
    /\ state["use_rerank"]
    /\ state["metadata"]["reranked"]
    /\ state["metadata"]["retrieval_count"] = 0
    /\ state["answer"] = <<"Paris">>

RECURSIVE RunFrom(_, _)
\* where a request that is at node p with state s ends when nothing else runs
RunFrom(p, s) ==
    IF p = "END" THEN [pc |-> "END", state |-> s]
    ELSE IF DependencyRaises(p, s) THEN [pc |-> "raised", state |-> s]
    ELSE RunFrom(Edge(p), NodeAt(p, s).state)

RunAlone(e) == RunFrom(EntryPoint, e)

Finished(p) == p \in {"END", "raised"}

\* C32: two requests processed concurrently do not interfere: for every
\* interleaving of their stages each request's final state equals the final
\* state it reaches when run alone.
RequestsDoNotInterfere ==
    peer.pc # "idle" =>
        /\ Finished(pc) => [pc |-> pc, state |-> state] = RunAlone(entry)
        /\ Finished(peer.pc) =>
              [pc |-> peer.pc, state |-> peer.state] = RunAlone(peer.entry)

BlockedAndAnsweredSideBySide ==
    /\ peer.pc = "END"
    /\ pc = "END"
    /\ Blocked(state)
    /\ ~Blocked(peer.state)
    /\ peer.state["use_rerank"]
    /\ Len(peer.state["chunks"]) = 5
    /\ peer.state["answer"] = <<"[EMAIL_REDACTED]">>
    /\ state["answer"] = BlockedAnswer

\* retrieval, rerank and generation as the run recorded in log invoked them
Invoked(log) ==
    LET Remote(c) == c.dep \in {"retriever", "reranker", "generator"}
        remote == SelectSeq(log, Remote)
    IN [i \in 1..Len(remote) |-> remote[i].dep]

Results ==
    {singleton.callers[i].result :
        i \in {j \in 1..MaxCallers : singleton.callers[j].pc = "returned"}}

SerialCallsConstructOnce ==
    (singleton.pc = "loaded" /\ singleton.serial) =>
        /\ singleton.constructed <= 1
        /\ Cardinality(Results) <= 1

====
